---- MODULE Spec2Model ----
(***************************************************************************)
(* Model of the data-analyst agent: the sandbox runner                     *)
(* (src/code_executor.py, run_code_in_sandbox) and the three-stage         *)
(* pipeline of the HTTP endpoint (src/main.py, create_analysis).           *)
(*                                                                         *)
(* Text is a sequence of code points, bytes are a sequence of 0..255.      *)
(* The container daemon holds at most one container of the reserved name;  *)
(* a handle is the container's id.                                         *)
(***************************************************************************)
EXTENDS Integers, Sequences, FiniteSets, TLC

\* ------------------------------------------------------------------ bounds

\* Calls of run_code_in_sandbox each caller makes in the runner-only specs.
MaxInvocations == 2

\* Requests served in the pipeline spec.
MaxRequests == 2

Procs == {1, 2}

\* ------------------------------------------------------- bytes and text

\* Length of the well-formed UTF-8 sequence b starts with, 0 when ill-formed.
Utf8Len(b) ==
    LET n == Len(b)
        Cont(i) == i <= n /\ b[i] >= 128 /\ b[i] <= 191
    IN  IF b[1] <= 127 THEN 1
        ELSE IF b[1] >= 194 /\ b[1] <= 223 THEN (IF Cont(2) THEN 2 ELSE 0)
        ELSE IF b[1] = 224
             THEN (IF n >= 3 /\ b[2] >= 160 /\ b[2] <= 191 /\ Cont(3) THEN 3 ELSE 0)
        ELSE IF b[1] = 237
             THEN (IF n >= 3 /\ b[2] >= 128 /\ b[2] <= 159 /\ Cont(3) THEN 3 ELSE 0)
        ELSE IF b[1] >= 225 /\ b[1] <= 239
             THEN (IF Cont(2) /\ Cont(3) THEN 3 ELSE 0)
        ELSE IF b[1] = 240
             THEN (IF n >= 4 /\ b[2] >= 144 /\ b[2] <= 191 /\ Cont(3) /\ Cont(4)
                   THEN 4 ELSE 0)
        ELSE IF b[1] = 244
             THEN (IF n >= 4 /\ b[2] >= 128 /\ b[2] <= 143 /\ Cont(3) /\ Cont(4)
                   THEN 4 ELSE 0)
        ELSE IF b[1] >= 241 /\ b[1] <= 243
             THEN (IF Cont(2) /\ Cont(3) /\ Cont(4) THEN 4 ELSE 0)
        ELSE 0

\* The code point of the well-formed sequence of length n that b starts with.
CodePoint(b, n) ==
    CASE n = 1 -> b[1]
      [] n = 2 -> (b[1] - 192) * 64 + (b[2] - 128)
      [] n = 3 -> (b[1] - 224) * 4096 + (b[2] - 128) * 64 + (b[3] - 128)
      [] OTHER -> (b[1] - 240) * 262144 + (b[2] - 128) * 4096
                  + (b[3] - 128) * 64 + (b[4] - 128)

RECURSIVE Utf8Decode(_)
\* bytes.decode('utf-8'): the text, or ok = FALSE for UnicodeDecodeError.
Utf8Decode(b) ==
    IF b = <<>> THEN [ok |-> TRUE, text |-> <<>>]
    ELSE LET n == Utf8Len(b) IN
         IF n = 0 THEN [ok |-> FALSE, text |-> <<>>]
         ELSE LET rest == Utf8Decode(SubSeq(b, n + 1, Len(b))) IN
              IF rest.ok
              THEN [ok |-> TRUE, text |-> <<CodePoint(b, n)>> \o rest.text]
              ELSE [ok |-> FALSE, text |-> <<>>]

RECURSIVE Utf8Encode(_)
\* The UTF-8 bytes of a text (the inverse of a successful decode).
Utf8Encode(t) ==
    IF t = <<>> THEN <<>>
    ELSE LET c == t[1]
             head == IF c <= 127 THEN <<c>>
                     ELSE IF c <= 2047 THEN <<192 + (c \div 64), 128 + (c % 64)>>
                     ELSE IF c <= 65535
                          THEN <<224 + (c \div 4096), 128 + ((c \div 64) % 64),
                                 128 + (c % 64)>>
                     ELSE <<240 + (c \div 262144), 128 + ((c \div 4096) % 64),
                            128 + ((c \div 64) % 64), 128 + (c % 64)>>
         IN  head \o Utf8Encode(Tail(t))

\* ------------------------------------------------------------------- JSON

IsWs(c) == c \in {32, 9, 10, 13}

IsDigit(c) == c >= 48 /\ c <= 57

RECURSIVE SkipWs(_, _)
\* The first index at or after i that holds no JSON whitespace.
SkipWs(t, i) == IF i <= Len(t) /\ IsWs(t[i]) THEN SkipWs(t, i + 1) ELSE i

RECURSIVE DigitsEnd(_, _)
\* The first index at or after i that holds no digit.
DigitsEnd(t, i) == IF i <= Len(t) /\ IsDigit(t[i]) THEN DigitsEnd(t, i + 1) ELSE i

NoParse == [ok |-> FALSE, next |-> 0, canon |-> <<>>]

RECURSIVE ParseValue(_, _)
RECURSIVE ParseElems(_, _, _)
\* One JSON value of t from index i: integers and arrays of values (the texts
\* the modelled scripts print use digits, brackets, commas, whitespace; a
\* value starting with any other of their characters is no JSON).  canon is
\* the compact serialisation of the value read.
ParseValue(t, i) ==
    IF i > Len(t) THEN NoParse
    ELSE IF IsDigit(t[i])
         THEN LET j == IF t[i] = 48 THEN i + 1 ELSE DigitsEnd(t, i)
              IN  [ok |-> TRUE, next |-> j, canon |-> SubSeq(t, i, j - 1)]
    ELSE IF t[i] = 91
         THEN LET j == SkipWs(t, i + 1)
              IN  IF j <= Len(t) /\ t[j] = 93
                  THEN [ok |-> TRUE, next |-> j + 1, canon |-> <<91, 93>>]
                  ELSE ParseElems(t, j, <<91>>)
    ELSE NoParse

\* The elements of an array from index i (after "[" or ","), acc the
\* serialisation so far.
ParseElems(t, i, acc) ==
    LET v == ParseValue(t, i) IN
    IF ~v.ok THEN NoParse
    ELSE LET j == SkipWs(t, v.next) IN
         IF j > Len(t) THEN NoParse
         ELSE IF t[j] = 44 THEN ParseElems(t, SkipWs(t, j + 1), acc \o v.canon \o <<44>>)
         ELSE IF t[j] = 93
              THEN [ok |-> TRUE, next |-> j + 1, canon |-> acc \o v.canon \o <<93>>]
         ELSE NoParse

\* json.loads(text) followed by the response's serialisation of the value:
\* ok = FALSE for JSONDecodeError (no value, or text after the value).
JsonLoads(t) ==
    LET v == ParseValue(t, SkipWs(t, 1)) IN
    IF v.ok /\ SkipWs(t, v.next) = Len(t) + 1
    THEN [ok |-> TRUE, canon |-> v.canon]
    ELSE [ok |-> FALSE, canon |-> <<>>]

\* ---------------------------------------------------------------- scripts

\* The files of the workspace directory: the two the endpoint names and one
\* more a script may keep there.
Files == {"scraped_table.html", "films.csv", "notes.txt"}

\* The code strings handed to the runner, by what the code does.
Scripts == {"sampler", "scraper", "analysis", "memo", "warn", "quiet_fail",
            "binary", "loop"}

\* The code strings the generator answers with in the endpoint's spec.
GeneratedScripts == {"sampler", "scraper", "analysis", "memo", "warn", "quiet_fail"}

Run(term, wr, ex, o, e) ==
    [terminates |-> term, writes |-> wr, exit |-> ex, out |-> o, err |-> e]

\* What the process python -c <code> does with the workspace files it finds:
\* whether it terminates, the files it writes, its exit status and the bytes
\* it writes to stdout and stderr.
Behave(s, files) ==
    CASE s = "sampler" -> Run(TRUE, {"scraped_table.html"}, 0, <<111, 107>>, <<>>)
      [] s = "scraper" ->
            IF "scraped_table.html" \in files
            THEN Run(TRUE, {"films.csv"}, 0, <<49>>, <<>>)
            ELSE Run(TRUE, {}, 1, <<>>, <<69>>)
      [] s = "analysis" ->
            IF "films.csv" \in files
            THEN Run(TRUE, {}, 0, <<91, 49, 44, 32, 49, 93, 10>>, <<>>)
            ELSE Run(TRUE, {}, 1, <<>>, <<69>>)
      [] s = "memo" ->
            IF "notes.txt" \in files
            THEN Run(TRUE, {}, 0, <<91, 49, 93>>, <<>>)
            ELSE Run(TRUE, {"notes.txt"}, 0, <<91, 93>>, <<>>)
      [] s = "warn" ->
            Run(TRUE, {"scraped_table.html", "films.csv"}, 0, <<91, 49, 93>>,
                <<195, 169>>)
      [] s = "quiet_fail" ->
            Run(TRUE, {"scraped_table.html", "films.csv"}, 1, <<91, 49, 93>>, <<>>)
      [] s = "binary" ->
            Run(TRUE, {"scraped_table.html", "films.csv"}, 0, <<255>>, <<>>)
      [] OTHER -> Run(FALSE, {}, 0, <<>>, <<>>)

\* ------------------------------------------------------------------ state

VARIABLES
    env,            \* the container of the reserved name, as the daemon holds it
    ws,             \* the files present in the workspace directory
    imagePresent,   \* whether data-analyst-image exists locally
    limit,          \* how many invocations of the runner may be in flight
    call,           \* per caller: the frame of its invocation of the runner
    invs,           \* per caller: the invocations it has started
    menu,           \* the code strings the callers pass to the runner
    clobbered,      \* an in-use container was removed by another invocation
    conflictSeen,   \* a creation failed on the name being taken
    ppc,            \* the endpoint's position in create_analysis
    stage,          \* the stage the endpoint is at (0 outside a request)
    question,       \* the bytes of the uploaded question
    genOut,         \* per stage: the code the generator answers with
    seen,           \* per stage: what the endpoint's test of the stage saw
    response,       \* the response of the request being served
    responses,      \* the responses of the requests served so far
    genCalls,       \* per stage: generator calls in this request
    runCalls,       \* per stage: runner calls in this request
    wsAtStage1      \* the workspace files when stage 1's runner call was made

pipeVars == <<ppc, stage, question, genOut, seen, response, responses, genCalls,
              runCalls, wsAtStage1>>

vars == <<env, ws, imagePresent, limit, call, invs, menu, clobbered,
          conflictSeen, ppc, stage, question, genOut, seen, response, responses,
          genCalls, runCalls, wsAtStage1>>

\* ------------------------------------------------------------- the daemon

NoRun == Run(FALSE, {}, 0, <<>>, <<>>)

\* No container of the reserved name.
Absent == [id |-> 0, owner |-> 0, state |-> "absent", code |-> "loop", run |-> NoRun]

\* A container left by an earlier run of the program, its process over or not.
Stale(st) ==
    [id |-> 1, owner |-> 0, state |-> st, code |-> "loop",
     run |-> IF st = "exited" THEN Run(TRUE, {}, 0, <<>>, <<>>) ELSE NoRun]

\* str(e) of the exceptions of the container client and of the decoding: a
\* non-empty text each.
StrE(e) ==
    CASE e = "DockerException" -> <<68>>
      [] e = "ImageNotFound" -> <<73>>
      [] e = "NotFound" -> <<78>>
      [] e = "APIError" -> <<65>>
      [] e = "Conflict" -> <<67>>
      [] OTHER -> <<85>>

\* container.logs(stdout=.., stderr=..): the bytes of the streams asked for.
LogsMerged(run, stdout, stderr) == run.out \o run.err

Logs(run, stdout, stderr) ==
    (IF stdout THEN run.out ELSE <<>>) \o (IF stderr THEN run.err ELSE <<>>)

\* The container's process ends: it has read and written the workspace.
ProcessExit ==
    /\ env.state = "running"
    /\ LET r == Behave(env.code, ws) IN
       /\ r.terminates
       /\ env' = [env EXCEPT !.state = "exited", !.run = r]
       /\ ws' = ws \cup r.writes
    /\ UNCHANGED <<imagePresent, limit, call, invs, menu, clobbered,
                   conflictSeen>>
    /\ UNCHANGED pipeVars

\* ------------------------------------------------------------- the runner

NoResult == [stdout |-> <<>>, stderr |-> <<>>, exit_code |-> 0]

\* The frame of a caller that has not called the runner.
IdleFrame ==
    [pc |-> "idle", code |-> "loop", container |-> 0, existing_container |-> 0,
     wait_result |-> [has |-> FALSE, StatusCode |-> 0], stdout |-> <<>>,
     result |-> NoResult, failedAt |-> "none", error |-> "none",
     createdId |-> 0, teardowns |-> 0, teardownFailed |-> FALSE,
     staleFound |-> FALSE]

\* Whether caller p is inside run_code_in_sandbox.
InFlight(p) == call[p].pc \notin {"idle", "done", "raised"}

\* The handle h names a container the daemon still holds.
Live(h) == h # 0 /\ env.state # "absent" /\ env.id = h

\* The id the daemon gives the next container: one that no container and no
\* handle bears (ids from 2 on; which of the unused ids it is cannot be told).
NewId ==
    LET used == {env.id} \cup UNION {{call[q].container, call[q].existing_container,
                                       call[q].createdId} : q \in Procs}
        free == {i \in 2..(2 + 3 * Cardinality(Procs)) : i \notin used}
    IN  CHOOSE i \in free : \A j \in free : i <= j

\* Another caller is waiting on, or reading the logs of, the container h.
InUseByOther(p, h) ==
    \E q \in Procs \ {p} :
        /\ call[q].container = h
        /\ call[q].pc \in {"wait", "logs_out", "logs_err"}

\* Lines 9-17: the call is entered with its locals, container = None.
Enter(p, s) ==
    call' = [call EXCEPT ![p] = [IdleFrame EXCEPT !.pc = "client", !.code = s]]

\* Lines 50-52: the handler of the try block turns exception e, raised by
\* step, into the result, and control goes to the finally block.
Except(p, step, e) ==
    call' = [call EXCEPT ![p] =
                [@ EXCEPT !.pc = "finally", !.failedAt = step, !.error = e,
                          !.result = [stdout |-> <<>>, stderr |-> StrE(e),
                                      exit_code |-> -1]]]

\* The default of line 48 taken to be the failure's -1.
StatusCodeOrMinusOne(d, default) == IF d.has THEN d.StatusCode ELSE -1

\* dict.get('StatusCode', 0) of the wait's answer.
StatusCodeOr(d, default) == IF d.has THEN d.StatusCode ELSE default

\* What a step of the runner leaves alone besides the daemon and its frame.
RunnerFrame ==
    /\ UNCHANGED <<ws, imagePresent, limit, invs, menu>>
    /\ UNCHANGED pipeVars

\* Line 14: client = docker.from_env(), before the try block: an exception
\* here leaves the function.
FromEnv(p) ==
    /\ call[p].pc = "client"
    /\ \/ call' = [call EXCEPT ![p].pc = "image"]
       \/ call' = [call EXCEPT ![p].pc = "raised", ![p].failedAt = "client",
                               ![p].error = "DockerException"]
    /\ UNCHANGED <<env, clobbered, conflictSeen>>
    /\ RunnerFrame

\* Line 26: client.images.get(python_image).
ImagesGet(p) ==
    /\ call[p].pc = "image"
    /\ \/ /\ imagePresent
          /\ call' = [call EXCEPT ![p].pc = "lookup"]
       \/ /\ ~imagePresent
          /\ Except(p, "image", "ImageNotFound")
       \/ Except(p, "image", "APIError")
    /\ UNCHANGED <<env, clobbered, conflictSeen>>
    /\ RunnerFrame

\* Lines 27-31 without the handler of lines 30-31: the lookup's NotFound goes
\* to the handler of line 50.
ContainersGetStrict(p) ==
    /\ call[p].pc = "lookup"
    /\ \/ /\ env.state # "absent"
          /\ call' = [call EXCEPT ![p].pc = "stale",
                                  ![p].existing_container = env.id,
                                  ![p].staleFound = TRUE]
       \/ /\ env.state = "absent"
          /\ Except(p, "lookup", "NotFound")
       \/ Except(p, "lookup", "APIError")
    /\ UNCHANGED <<env, clobbered, conflictSeen>>
    /\ RunnerFrame

\* Lines 27-31 left out: creation is next whatever holds the name.
ContainersGetBlind(p) ==
    /\ call[p].pc = "lookup"
    /\ call' = [call EXCEPT ![p].pc = "create"]
    /\ UNCHANGED <<env, clobbered, conflictSeen>>
    /\ RunnerFrame

\* Line 28: client.containers.get(container_name); NotFound is passed over
\* (lines 30-31) and creation is next.
ContainersGet(p) ==
    /\ call[p].pc = "lookup"
    /\ \/ /\ env.state # "absent"
          /\ call' = [call EXCEPT ![p].pc = "stale",
                                  ![p].existing_container = env.id,
                                  ![p].staleFound = TRUE]
       \/ /\ env.state = "absent"
          /\ call' = [call EXCEPT ![p].pc = "create"]
       \/ Except(p, "lookup", "APIError")
    /\ UNCHANGED <<env, clobbered, conflictSeen>>
    /\ RunnerFrame

\* Line 29 with the removal left out.
StaleRemoveSkipped(p) ==
    /\ call[p].pc = "stale"
    /\ call' = [call EXCEPT ![p].pc = "create"]
    /\ UNCHANGED <<env, clobbered, conflictSeen>>
    /\ RunnerFrame

\* Line 29: existing_container.remove(force=True); NotFound (the container
\* went away since the lookup) is passed over like the lookup's.
StaleRemove(p) ==
    /\ call[p].pc = "stale"
    /\ \/ /\ Live(call[p].existing_container)
          /\ env' = Absent
          /\ clobbered' = (clobbered \/ InUseByOther(p, env.id))
          /\ call' = [call EXCEPT ![p].pc = "create"]
       \/ /\ ~Live(call[p].existing_container)
          /\ call' = [call EXCEPT ![p].pc = "create"]
          /\ UNCHANGED <<env, clobbered>>
       \/ /\ Except(p, "stale", "APIError")
          /\ UNCHANGED <<env, clobbered>>
    /\ UNCHANGED conflictSeen
    /\ RunnerFrame

\* Lines 36-43: client.containers.run(..., name=container_name, detach=True).
\* The daemon refuses a name that is taken; the container is created and then
\* started, so a failure to start leaves it behind with no handle returned.
ContainersRun(p) ==
    /\ call[p].pc = "create"
    /\ \/ /\ env.state # "absent"
          /\ Except(p, "create", "Conflict")
          /\ conflictSeen' = TRUE
          /\ UNCHANGED env
       \/ /\ env.state = "absent"
          /\ env' = [id |-> NewId, owner |-> p, state |-> "running",
                     code |-> call[p].code, run |-> NoRun]
          /\ call' = [call EXCEPT ![p].pc = "wait", ![p].container = NewId,
                                  ![p].createdId = NewId]
          /\ UNCHANGED conflictSeen
       \/ /\ env.state = "absent"
          /\ Except(p, "create", "APIError")
          /\ UNCHANGED <<env, conflictSeen>>
       \/ /\ env.state = "absent"
          /\ env' = [id |-> NewId, owner |-> p, state |-> "created",
                     code |-> call[p].code, run |-> NoRun]
          /\ call' = [call EXCEPT ![p] =
                        [@ EXCEPT !.pc = "finally", !.failedAt = "create",
                                  !.error = "APIError", !.createdId = NewId,
                                  !.result = [stdout |-> <<>>,
                                              stderr |-> StrE("APIError"),
                                              exit_code |-> -1]]]
          /\ UNCHANGED conflictSeen
    /\ UNCHANGED clobbered
    /\ RunnerFrame

\* Line 44 with a wait that answers at once, whatever the process does.
WaitReturnsEarly(p) ==
    /\ call[p].pc = "wait"
    /\ \/ /\ Live(call[p].container)
          /\ \E has \in BOOLEAN :
                call' = [call EXCEPT ![p].pc = "logs_out",
                            ![p].wait_result =
                                [has |-> has,
                                 StatusCode |-> IF has THEN env.run.exit ELSE 0]]
       \/ /\ ~Live(call[p].container)
          /\ Except(p, "wait", "NotFound")
       \/ Except(p, "wait", "APIError")
    /\ UNCHANGED <<env, clobbered, conflictSeen>>
    /\ RunnerFrame

\* Line 44: result = container.wait(): returns once the process is over.
Wait(p) ==
    /\ call[p].pc = "wait"
    /\ \/ /\ Live(call[p].container)
          /\ env.state = "exited"
          /\ \E has \in BOOLEAN :
                call' = [call EXCEPT ![p].pc = "logs_out",
                            ![p].wait_result =
                                [has |-> has,
                                 StatusCode |-> IF has THEN env.run.exit ELSE 0]]
       \/ /\ ~Live(call[p].container)
          /\ Except(p, "wait", "NotFound")
       \/ Except(p, "wait", "APIError")
    /\ UNCHANGED <<env, clobbered, conflictSeen>>
    /\ RunnerFrame

\* Line 45: stdout = container.logs(stdout=True, stderr=False).decode('utf-8').
LogsOut(p) ==
    /\ call[p].pc = "logs_out"
    /\ \/ /\ Live(call[p].container)
          /\ LET d == Utf8Decode(Logs(env.run, TRUE, FALSE)) IN
             IF d.ok
             THEN call' = [call EXCEPT ![p].pc = "logs_err", ![p].stdout = d.text]
             ELSE Except(p, "logs", "UnicodeDecodeError")
       \/ /\ ~Live(call[p].container)
          /\ Except(p, "logs", "NotFound")
       \/ Except(p, "logs", "APIError")
    /\ UNCHANGED <<env, clobbered, conflictSeen>>
    /\ RunnerFrame

\* Lines 46-48: stderr likewise, and the return value of the normal path.
LogsErr(p) ==
    /\ call[p].pc = "logs_err"
    /\ \/ /\ Live(call[p].container)
          /\ LET d == Utf8Decode(Logs(env.run, FALSE, TRUE)) IN
             IF d.ok
             THEN call' = [call EXCEPT ![p].pc = "finally",
                              ![p].result =
                                  [stdout |-> call[p].stdout, stderr |-> d.text,
                                   exit_code |->
                                       StatusCodeOr(call[p].wait_result, 0)]]
             ELSE Except(p, "logs", "UnicodeDecodeError")
       \/ /\ ~Live(call[p].container)
          /\ Except(p, "logs", "NotFound")
       \/ Except(p, "logs", "APIError")
    /\ UNCHANGED <<env, clobbered, conflictSeen>>
    /\ RunnerFrame

\* Lines 54-59 without the test of line 55: removal is tried on every path.
FinallyUnguarded(p) ==
    /\ call[p].pc = "finally"
    /\ call' = [call EXCEPT ![p].pc = "done", ![p].teardowns = @ + 1]
    /\ env' = IF Live(call[p].container) THEN Absent ELSE env
    /\ UNCHANGED <<clobbered, conflictSeen>>
    /\ RunnerFrame

\* Lines 54-59 with a teardown failure reported to the caller in the result.
FinallyMasking(p) ==
    /\ call[p].pc = "finally"
    /\ \/ /\ call[p].container = 0
          /\ call' = [call EXCEPT ![p].pc = "done"]
          /\ UNCHANGED env
       \/ /\ Live(call[p].container)
          /\ env' = Absent
          /\ call' = [call EXCEPT ![p].pc = "done", ![p].teardowns = @ + 1]
       \/ /\ call[p].container # 0
          /\ call' = [call EXCEPT ![p].pc = "done", ![p].teardowns = @ + 1,
                                  ![p].teardownFailed = TRUE,
                                  ![p].result = [stdout |-> <<>>,
                                                 stderr |-> StrE("APIError"),
                                                 exit_code |-> -1]]
          /\ UNCHANGED env
    /\ UNCHANGED <<clobbered, conflictSeen>>
    /\ RunnerFrame

\* Lines 54-59: the finally block.  With a handle, container.remove(force=True)
\* is called once; its exception (the container is gone, or the daemon fails)
\* is logged and dropped.  Then the function returns its result.
Finally(p) ==
    /\ call[p].pc = "finally"
    /\ \/ /\ call[p].container = 0
          /\ call' = [call EXCEPT ![p].pc = "done"]
          /\ UNCHANGED env
       \/ /\ Live(call[p].container)
          /\ env' = Absent
          /\ call' = [call EXCEPT ![p].pc = "done", ![p].teardowns = @ + 1]
       \/ /\ call[p].container # 0
          /\ call' = [call EXCEPT ![p].pc = "done", ![p].teardowns = @ + 1,
                                  ![p].teardownFailed = TRUE]
          /\ UNCHANGED env
    /\ UNCHANGED <<clobbered, conflictSeen>>
    /\ RunnerFrame

\* One step of caller p inside run_code_in_sandbox.
RunnerStep(p) ==
    \/ FromEnv(p)
    \/ ImagesGet(p)
    \/ ContainersGet(p)
    \/ StaleRemove(p)
    \/ ContainersRun(p)
    \/ Wait(p)
    \/ LogsOut(p)
    \/ LogsErr(p)
    \/ Finally(p)

\* A call of the runner whatever is in flight.
CallRunnerUnlimited(p) ==
    /\ call[p].pc = "idle"
    /\ invs[p] < MaxInvocations
    /\ \E s \in menu : Enter(p, s)
    /\ invs' = [invs EXCEPT ![p] = @ + 1]
    /\ UNCHANGED <<env, ws, imagePresent, limit, menu, clobbered,
                   conflictSeen>>
    /\ UNCHANGED pipeVars

\* A caller calls run_code_in_sandbox(code): only while fewer than limit
\* invocations are in flight.
CallRunner(p) ==
    /\ call[p].pc = "idle"
    /\ \A q \in Procs : call[q].pc \notin {"done", "raised"}
    /\ invs[p] < MaxInvocations
    /\ Cardinality({q \in Procs : InFlight(q)}) < limit
    /\ \E s \in menu : Enter(p, s)
    /\ invs' = [invs EXCEPT ![p] = @ + 1]
    /\ UNCHANGED <<env, ws, imagePresent, limit, menu, clobbered,
                   conflictSeen>>
    /\ UNCHANGED pipeVars

\* The caller has its result (or the exception): the frame is gone.
Return(p) ==
    /\ call[p].pc \in {"done", "raised"}
    /\ call' = [call EXCEPT ![p] = IdleFrame]
    /\ UNCHANGED <<env, ws, imagePresent, limit, invs, menu, clobbered,
                   conflictSeen>>
    /\ UNCHANGED pipeVars

\* ----------------------------------------------------------- the endpoint

Stages == {1, 2, 3}

\* Lines 46-47: the file a stage must leave in the workspace (stage 3: none).
ExpectedFile(k) ==
    CASE k = 1 -> {"scraped_table.html"}
      [] k = 2 -> {"films.csv"}
      [] OTHER -> {}

\* Lines 70, 92, 112: the error message of a failed stage.
StageError(k) ==
    CASE k = 1 -> "Stage 1 (sampler) failed to create the output file."
      [] k = 2 -> "Stage 2 (scraper) failed to create the final CSV file."
      [] OTHER -> "Stage 3 (analysis) failed."

\* Line 121.
ParseError == "Failed to parse the final JSON array from the analysis script."

\* A stage not tested yet.
NotSeen == [checked |-> FALSE, result |-> NoResult, exists |-> FALSE,
            fault |-> FALSE]

NoResponse == [status |-> 0, kind |-> "none", body |-> <<>>, error |-> ""]

\* JSONResponse(content=final_answer): status 200, the value serialised.
Payload(canon) == [status |-> 200, kind |-> "payload", body |-> canon, error |-> ""]

\* JSONResponse(status_code=500, content={"error": msg}).
ErrorObject(msg) == [status |-> 500, kind |-> "error", body |-> <<>>, error |-> msg]

\* An exception leaving create_analysis: the framework's own 500 response,
\* which is no JSON object.
Unhandled == [status |-> 500, kind |-> "unhandled", body |-> <<>>, error |-> ""]

\* The request for question q ends with response r; fault tells whether the
\* generator or a step of the runner failed while it was served.
Respond(r, q, fault) ==
    /\ response' = r
    /\ responses' = Append(responses,
                           [response |-> r, question |-> q, fault |-> fault])
    /\ ppc' = "responded"

\* Lines 50-53: the files deleted before a run.
CleanedNothing(files) == files

Cleaned(files) == files \ {"scraped_table.html", "films.csv"}

\* Lines 42-53: the question is read and decoded, and the two files of an
\* earlier request are deleted from the workspace.
Receive ==
    /\ ppc \in {"idle", "responded"}
    /\ Len(responses) < MaxRequests
    /\ ~InFlight(1)
    /\ \E q \in {<<81>>, <<255>>} :
        /\ question' = q
        /\ IF Utf8Decode(q).ok
           THEN /\ ws' = Cleaned(ws)
                /\ ppc' = "gen"
                /\ stage' = 1
                /\ response' = NoResponse
                /\ UNCHANGED responses
           ELSE /\ Respond(Unhandled, q, FALSE)
                /\ stage' = 0
                /\ UNCHANGED ws
    /\ genCalls' = [k \in Stages |-> 0]
    /\ runCalls' = [k \in Stages |-> 0]
    /\ seen' = [k \in Stages |-> NotSeen]
    /\ wsAtStage1' = {}
    /\ UNCHANGED <<env, imagePresent, limit, call, invs, menu, clobbered,
                   conflictSeen, genOut>>

\* Lines 64-66, 85-87, 105-107: the generator is asked for the stage's code;
\* it answers, or the call raises.
Generate ==
    /\ ppc = "gen"
    /\ genCalls' = [genCalls EXCEPT ![stage] = @ + 1]
    /\ \/ /\ ppc' = "run"
          /\ UNCHANGED <<response, responses>>
       \/ Respond(Unhandled, question, TRUE)
    /\ UNCHANGED <<env, ws, imagePresent, limit, call, invs, menu, clobbered,
                   conflictSeen, stage, question, genOut, seen, runCalls,
                   wsAtStage1>>

\* Lines 67, 88, 108: run_code_in_sandbox(code) is called.
RunStage ==
    /\ ppc = "run"
    /\ Enter(1, genOut[stage])
    /\ runCalls' = [runCalls EXCEPT ![stage] = @ + 1]
    /\ wsAtStage1' = IF stage = 1 THEN ws ELSE wsAtStage1
    /\ ppc' = "wait"
    /\ UNCHANGED <<env, ws, imagePresent, limit, invs, menu, clobbered,
                   conflictSeen, stage, question, genOut, seen, response,
                   responses, genCalls>>

\* Lines 69, 90, 110 without the test of the file.
StageFailedStderrOnly(k, r, files) == r.stderr # <<>>

\* Lines 69, 90, 110 with stderr counted only beside a non-zero exit code.
StageFailedOnExit(k, r, files) ==
    (r.stderr # <<>> /\ r.exit_code # 0) \/ ~(ExpectedFile(k) \subseteq files)

\* Lines 69, 90, 110 with a non-zero exit code counted as a failure too.
StageFailedNonZero(k, r, files) ==
    r.stderr # <<>> \/ r.exit_code # 0 \/ ~(ExpectedFile(k) \subseteq files)

\* Lines 69, 90, 110: the test of a stage's result: stderr is non-empty, or
\* the expected file is not in the workspace.
StageFailed(k, r, files) ==
    r.stderr # <<>> \/ ~(ExpectedFile(k) \subseteq files)

\* Lines 69-70, 90-92, 110-121: the runner has returned: the stage's test,
\* then the next stage or, after stage 3, the parse of its stdout.
StageReturned ==
    /\ ppc = "wait"
    /\ call[1].pc = "done"
    /\ LET r == call[1].result
           sn == [seen EXCEPT ![stage] =
                    [checked |-> TRUE, result |-> r,
                     exists |-> ExpectedFile(stage) \subseteq ws,
                     fault |-> call[1].failedAt # "none"]]
           fault == \E k \in Stages : sn[k].fault
       IN
       /\ seen' = sn
       /\ IF StageFailed(stage, r, ws)
          THEN /\ Respond(ErrorObject(StageError(stage)), question, fault)
               /\ UNCHANGED stage
          ELSE IF stage < 3
          THEN /\ ppc' = "gen"
               /\ stage' = stage + 1
               /\ UNCHANGED <<response, responses>>
          ELSE /\ LET v == JsonLoads(r.stdout) IN
                  IF v.ok THEN Respond(Payload(v.canon), question, fault)
                  ELSE Respond(ErrorObject(ParseError), question, fault)
               /\ UNCHANGED stage
    /\ call' = [call EXCEPT ![1] = IdleFrame]
    /\ UNCHANGED <<env, ws, imagePresent, limit, invs, menu, clobbered,
                   conflictSeen, question, genOut, genCalls, runCalls, wsAtStage1>>

\* Lines 67, 88, 108: the runner raised: the exception leaves the endpoint.
StageRaised ==
    /\ ppc = "wait"
    /\ call[1].pc = "raised"
    /\ Respond(Unhandled, question, TRUE)
    /\ call' = [call EXCEPT ![1] = IdleFrame]
    /\ UNCHANGED <<env, ws, imagePresent, limit, invs, menu, clobbered,
                   conflictSeen, stage, question, genOut, seen, genCalls,
                   runCalls, wsAtStage1>>

\* --------------------------------------------------------- specifications

InitRunner ==
    /\ imagePresent \in BOOLEAN
    /\ call = [p \in Procs |-> IdleFrame]
    /\ invs = [p \in Procs |-> 0]
    /\ clobbered = FALSE
    /\ conflictSeen = FALSE
    /\ ppc = "idle"
    /\ stage = 0
    /\ question = <<>>
    /\ seen = [k \in Stages |-> NotSeen]
    /\ response = NoResponse
    /\ responses = <<>>
    /\ genCalls = [k \in Stages |-> 0]
    /\ runCalls = [k \in Stages |-> 0]
    /\ wsAtStage1 = {}

\* One invocation of the runner at a time.
Init ==
    /\ InitRunner
    /\ env \in {Absent, Stale("exited"), Stale("running")}
    /\ ws \in SUBSET Files
    /\ limit = 1
    /\ menu = Scripts
    /\ genOut = [k \in Stages |-> "loop"]

\* One or two invocations at a time.
InitConc ==
    /\ InitRunner
    /\ env \in {Absent, Stale("exited")}
    /\ ws = {}
    /\ limit \in {1, 2}
    /\ menu = {"sampler", "loop"}
    /\ genOut = [k \in Stages |-> "loop"]

\* The endpoint, serving one request at a time, with a generator that gives
\* each stage the same code in every request.
InitPipe ==
    /\ InitRunner
    /\ env \in {Absent, Stale("exited"), Stale("running")}
    /\ ws \in SUBSET Files
    /\ limit = 1
    /\ menu = {}
    /\ genOut \in [Stages -> GeneratedScripts]

Next ==
    \/ ProcessExit
    \/ \E p \in Procs : CallRunner(p)
    \/ \E p \in Procs : RunnerStep(p)
    \/ \E p \in Procs : Return(p)

NextPipe ==
    \/ ProcessExit
    \/ RunnerStep(1)
    \/ Receive
    \/ Generate
    \/ RunStage
    \/ StageReturned
    \/ StageRaised

Spec == Init /\ [][Next]_vars

\* One invocation at a time, for the questions of progress.
InitLive ==
    /\ InitRunner
    /\ env \in {Absent, Stale("exited"), Stale("running")}
    /\ ws = {}
    /\ limit = 1
    /\ menu = {"sampler", "loop"}
    /\ genOut = [k \in Stages |-> "loop"]

\* Line 44 answering: the wait has something to answer with, because the
\* process is over or the container is gone.
WaitCompletes(p) ==
    /\ ~(Live(call[p].container) /\ env.state # "exited")
    /\ Wait(p)

\* Every call on the daemon other than the wait answers in the end, with its
\* value or its exception; the wait answers once the process is over; a
\* process that can end does.  Callers are free never to call again.
Fairness ==
    /\ WF_vars(ProcessExit)
    /\ \A p \in Procs :
          /\ WF_vars(FromEnv(p) \/ ImagesGet(p) \/ ContainersGet(p)
                        \/ StaleRemove(p) \/ ContainersRun(p) \/ LogsOut(p)
                        \/ LogsErr(p) \/ Finally(p))
          /\ WF_vars(WaitCompletes(p))

SpecLive == InitLive /\ [][Next]_vars /\ Fairness

SpecConc == InitConc /\ [][Next]_vars

SpecPipe == InitPipe /\ [][NextPipe]_vars

\* ------------------------------------------------- the runner's contract

\* C1 (as claimed): every invocation returns a result and never lets an
\* exception out, whichever step fails; when a step failed the result is
\* stdout = "", exit_code = -1 and stderr = the failure's description.
C1_AlwaysAResult ==
    \A p \in Procs :
        /\ call[p].pc # "raised"
        /\ (call[p].pc = "done" /\ call[p].failedAt # "none") =>
                call[p].result = [stdout |-> <<>>, stderr |-> StrE(call[p].error),
                                  exit_code |-> -1]

C3_NothingLeaked ==
    \A p \in Procs :
        (call[p].pc = "done" /\ call[p].createdId # 0) => ~Live(call[p].createdId)

\* C4: with one invocation at a time, no invocation fails on the name being
\* taken, and the creation is only ever issued with no environment of the
\* name left, whatever the earlier invocations left behind.
C4_NoNameConflict ==
    \A p \in Procs :
        /\ call[p].error # "Conflict"
        /\ call[p].pc = "create" => env.state = "absent"

\* C4 witness: an invocation found the environment an earlier invocation
\* left behind (ids from 2 on are the runner's own) and has created its own.
C4_Witness ==
    \E p \in Procs :
        /\ call[p].pc = "wait"
        /\ call[p].staleFound
        /\ call[p].existing_container >= 2
        /\ Live(call[p].container)

\* The process of p's invocation is over, with exit status 0 and nothing on
\* stderr; the invocation has its result and is about to tear down.
CleanExit(p) ==
    /\ call[p].pc = "finally"
    /\ Live(call[p].container)
    /\ env.state = "exited"
    /\ env.run.exit = 0
    /\ env.run.err = <<>>

SawFailure(k) ==
    /\ seen[k].checked
    /\ seen[k].result.stderr # <<>> \/ ~seen[k].exists

\* C6: the stages run in order 1, 2, 3, each at most once per request; after
\* a stage whose stderr is non-empty or whose expected file is absent, the
\* response is that stage's error with status 500 and neither the generator
\* nor the runner is invoked for a later stage.
C6_StagesInOrderAbortOnFailure ==
    /\ \A k \in Stages :
        /\ genCalls[k] <= 1
        /\ runCalls[k] <= genCalls[k]
        /\ seen[k].checked => runCalls[k] = 1
        /\ SawFailure(k) =>
            /\ response = ErrorObject(StageError(k))
            /\ response.status = 500
            /\ \A j \in Stages : j > k => genCalls[j] = 0 /\ runCalls[j] = 0
    /\ \A k \in Stages \ {1} :
        genCalls[k] >= 1 => seen[k - 1].checked /\ ~SawFailure(k - 1)

\* C6 witness: stage 2 was tested and failed for its missing file, after
\* stage 1 passed; stage 3 was never begun.
C6_Witness ==
    /\ ppc = "responded"
    /\ seen[1].checked /\ ~SawFailure(1)
    /\ seen[2].checked /\ seen[2].result.stderr = <<>> /\ ~seen[2].exists
    /\ genCalls[3] = 0

\* C7: a stage whose result has a non-empty stderr is failed with that
\* stage's error, whatever its exit_code and whether or not its file exists.
C7_AnyStderrFailsStage ==
    \A k \in Stages :
        (seen[k].checked /\ seen[k].result.stderr # <<>>) =>
            /\ ppc = "responded"
            /\ response = ErrorObject(StageError(k))

\* C7 witness: a stage with exit_code 0, its file present and text on stderr
\* was failed.
C7_Witness ==
    \E k \in Stages :
        /\ seen[k].checked
        /\ seen[k].result.stderr # <<>>
        /\ seen[k].result.exit_code = 0
        /\ seen[k].exists
        /\ response = ErrorObject(StageError(k))

\* C8 (as claimed): every request ends with status 200 and the value parsed
\* from stage 3's stdout, all three stages having passed, or with status 500
\* and an object {error: message}, the parse failure's message being none of
\* the three stage messages.
C8_PayloadOrErrorObject ==
    ppc = "responded" =>
        \/ /\ response.status = 200
           /\ response.kind = "payload"
           /\ \A k \in Stages : seen[k].checked /\ ~SawFailure(k)
           /\ JsonLoads(seen[3].result.stdout).ok
           /\ response.body = JsonLoads(seen[3].result.stdout).canon
        \/ /\ response.status = 500
           /\ response.kind = "error"
           /\ response.error \in {StageError(k) : k \in Stages} \cup {ParseError}
           /\ ParseError \notin {StageError(k) : k \in Stages}

\* The two first requests were served with the same question and with no
\* failure of the generator or of a runner step.
TwoCleanRuns ==
    /\ Len(responses) >= 2
    /\ responses[1].question = responses[2].question
    /\ ~responses[1].fault
    /\ ~responses[2].fault

\* C9 (as claimed): two runs in succession with the same question and the
\* same generator outputs give identical responses.
C9_SecondRunSameResponse ==
    TwoCleanRuns => responses[1].response = responses[2].response

\* The code s does the same whatever the workspace holds besides the two
\* files the endpoint deletes.
ReadsOnlyStageFiles(s) ==
    \A f \in SUBSET Files :
        Behave(s, f) = Behave(s, f \cap {"scraped_table.html", "films.csv"})

\* C9 (the extent of the divergence): the two responses do agree when every
\* generated script depends on no workspace file other than
\* scraped_table.html and films.csv, the only two files deleted before a run.
C9_SecondRunSameResponseOnStageFiles ==
    (TwoCleanRuns /\ \A k \in Stages : ReadsOnlyStageFiles(genOut[k])) =>
        responses[1].response = responses[2].response

\* C10: with one invocation at a time no invocation removes an environment
\* another is waiting on or reading, and none fails on the name being taken.
C10_RaceNeedsTwoInFlight ==
    limit = 1 => ~clobbered /\ ~conflictSeen

\* C10 witness: with two invocations in flight, one has removed the
\* environment the other was using and a creation has failed on the name.
C10_Witness ==
    limit = 2 /\ clobbered /\ conflictSeen

\* C11: the name is held by at most one environment (the daemon keeps names
\* unique), and an invocation is at its creation step only when no
\* environment of the name exists: the one its lookup found is gone by then.
C11_CreateOnlyWhenNameFree ==
    \A p \in Procs :
        call[p].pc = "create" =>
            /\ env.state = "absent"
            /\ call[p].staleFound => ~Live(call[p].existing_container)

\* C11 witness: an invocation found the environment an earlier run had left,
\* removed it, and is now waiting on the one it created under the same name.
C11_Witness ==
    \E p \in Procs :
        /\ call[p].pc = "wait"
        /\ call[p].staleFound
        /\ call[p].existing_container = 1
        /\ env.owner = p
        /\ env.id = call[p].container

\* C12: exit_code is -1 exactly when a step of the runner failed; otherwise
\* it is the status code the wait reported, which is the process's own exit
\* status, or 0 when the wait reported none.
C12_MinusOneIffRunnerFailed ==
    \A p \in Procs :
        call[p].pc \in {"finally", "done"} =>
            /\ (call[p].result.exit_code = -1) <=> (call[p].failedAt # "none")
            /\ (call[p].failedAt = "none" /\ call[p].wait_result.has /\
                call[p].pc = "finally" /\ Live(call[p].container)) =>
                    call[p].result.exit_code = env.run.exit
            /\ (call[p].failedAt = "none" /\ ~call[p].wait_result.has) =>
                    call[p].result.exit_code = 0

\* C12 witness: the process ended with status 1 of its own and the result
\* carries exit_code 1.
C12_Witness ==
    \E p \in Procs :
        /\ call[p].pc = "finally"
        /\ call[p].failedAt = "none"
        /\ Live(call[p].container)
        /\ env.run.exit = 1
        /\ call[p].result.exit_code = 1

\* The steps that may follow each step of one invocation, in the order of
\* the claim: image check, stale lookup and removal, creation, wait, the two
\* log reads, teardown; a failed step is followed by the teardown only.
StepsAfter(pc) ==
    CASE pc = "idle"     -> {"client"}
      [] pc = "client"   -> {"image", "raised"}
      [] pc = "image"    -> {"lookup", "finally"}
      [] pc = "lookup"   -> {"stale", "create", "finally"}
      [] pc = "stale"    -> {"create", "finally"}
      [] pc = "create"   -> {"wait", "finally"}
      [] pc = "wait"     -> {"logs_out", "finally"}
      [] pc = "logs_out" -> {"logs_err", "finally"}
      [] pc = "logs_err" -> {"finally"}
      [] pc = "finally"  -> {"done"}
      [] OTHER           -> {"idle"}

\* C13: within an invocation the steps come in the one order image check,
\* stale reclaim, creation, wait, log collection, teardown; the logs are read
\* only from a process that is over; and once a step has failed nothing but
\* the teardown follows.
C13_StepsInOrder ==
    /\ [](\A p \in Procs :
            /\ (call[p].pc \in {"logs_out", "logs_err"} /\
                Live(call[p].container)) => env.state = "exited"
            /\ call[p].failedAt # "none" =>
                    call[p].pc \in {"finally", "done", "raised"})
    /\ [][\A p \in Procs :
            call'[p].pc # call[p].pc =>
                /\ call'[p].pc \in StepsAfter(call[p].pc)
                /\ (call[p].failedAt = "none" /\ call'[p].pc = "finally" /\
                    call[p].pc # "logs_err") => call'[p].failedAt # "none"]_vars

\* C13 witness: an invocation went through every step, stale removal
\* included, and has returned after its teardown.
C13_Witness ==
    \E p \in Procs :
        /\ call[p].pc = "done"
        /\ call[p].staleFound
        /\ call[p].failedAt = "none"
        /\ call[p].teardowns = 1
        /\ ~call[p].teardownFailed

\* C14: the teardown step leaves the result as the try block or its handler
\* set it, whether the removal succeeds or fails, and always ends in a
\* return: a failed removal is not raised, and it returns the very result a
\* successful one returns.
C14_TeardownLeavesResult ==
    [][\A p \in Procs :
          call[p].pc = "finally" /\ call'[p].pc # "finally" =>
              /\ call'[p].pc = "done"
              /\ call'[p].result = call[p].result
              /\ call'[p].failedAt = call[p].failedAt]_vars

\* C14 witness: a run whose steps all succeeded has returned its result
\* although the removal of its environment failed.
C14_Witness ==
    \E p \in Procs :
        /\ call[p].pc = "done"
        /\ call[p].teardownFailed
        /\ call[p].failedAt = "none"
        /\ call[p].result.exit_code = 0
        /\ call[p].result.stdout # <<>>

\* C15 (as claimed): whether or not an environment of the name exists when
\* the invocation starts never shows in the result: the lookup's not-found is
\* no error, a stale environment is removed and creation follows, and no
\* result reports the conflict.
C15_StaleNeverShows ==
    \A p \in Procs :
        /\ call[p].error # "Conflict"
        /\ ~(call[p].failedAt = "lookup" /\ call[p].error = "NotFound")
        /\ call[p].failedAt # "stale"

\* C15 (amended): the lookup's not-found is never the failure of a result and
\* no result reports the name conflict; an invocation that reaches creation
\* is in the same state whether or not it found and removed a stale
\* environment; only a removal that itself fails shows, as the failure of the
\* result, and the stale environment is then still there.
C15_StaleShowsOnlyWhenRemovalFails ==
    \A p \in Procs :
        /\ call[p].error # "Conflict"
        /\ call[p].failedAt \in {"lookup", "stale"} => call[p].error = "APIError"
        /\ call[p].pc = "create" =>
              /\ env = Absent
              /\ [call[p] EXCEPT !.staleFound = FALSE, !.existing_container = 0]
                    = [IdleFrame EXCEPT !.pc = "create", !.code = call[p].code]
        /\ (call[p].failedAt = "stale" /\ call[p].pc = "finally") =>
              /\ call[p].staleFound
              /\ Live(call[p].existing_container)

\* C15 witness: an invocation that found and removed a stale environment has
\* returned the result of a run whose steps all succeeded.
C15_Witness ==
    \E p \in Procs :
        /\ call[p].pc = "done"
        /\ call[p].staleFound
        /\ call[p].failedAt = "none"
        /\ call[p].result.stderr = <<>>

\* C16 (as claimed): every removal the runner issues, before creation or in
\* the teardown, acts on an environment whose process is already over; the
\* runner never stops a running process.
C16_OnlyExitedDestroyed ==
    [][(env.state # "absent" /\ env'.state = "absent") =>
            env.state = "exited"]_vars

\* C16 (amended): the teardown of an invocation whose wait returned removes
\* an environment whose process is over.  (The removal before creation, and
\* the teardown after a failed wait, remove whatever they find, running or
\* not.)
C16_TeardownAfterWaitTargetsExited ==
    [][\A p \in Procs :
          (/\ call[p].pc = "finally"
           /\ call'[p].pc = "done"
           /\ call[p].failedAt \in {"none", "logs"}
           /\ env.state # "absent"
           /\ env'.state = "absent") => env.state = "exited"]_vars

\* C16 witness: an invocation whose steps all succeeded has removed its
\* environment in the teardown.
C16_Witness ==
    \E p \in Procs :
        /\ call[p].pc = "done"
        /\ call[p].failedAt = "none"
        /\ call[p].teardowns = 1
        /\ ~call[p].teardownFailed
        /\ ~call[p].staleFound
        /\ env.state = "absent"

\* The process the invocation of p starts ends by itself.
Terminating(p) == Behave(call[p].code, ws).terminates

\* The wait of the invocation of p has returned.
WaitReturned(p) ==
    \/ call[p].pc \in {"logs_out", "logs_err"}
    \/ call[p].pc \in {"finally", "done"} /\ call[p].failedAt \in {"none", "logs"}

\* C17: an invocation returns only after its process ended or a step of the
\* runner failed, and the wait on a process that never ends never returns;
\* an invocation that holds its client and whose process ends by itself
\* returns a result in the end, provided every call on the daemon answers.
C17_ReturnsOnceProcessEnds ==
    /\ [](\A p \in Procs :
            /\ WaitReturned(p) => Terminating(p)
            /\ (WaitReturned(p) /\ Live(call[p].container)) =>
                    env.state = "exited"
            /\ call[p].pc = "done" =>
                    call[p].failedAt # "none" \/ Terminating(p))
    /\ \A p \in Procs : \A n \in 1..MaxInvocations :
            (InFlight(p) /\ call[p].pc # "client" /\ invs[p] = n /\
             Terminating(p))
                ~> (call[p].pc = "done" /\ invs[p] = n)

\* C17 witness: an invocation has returned the result of a process that
\* ended by itself, after waiting for it.
C17_Witness ==
    \E p \in Procs :
        /\ call[p].pc = "done"
        /\ call[p].failedAt = "none"
        /\ Terminating(p)
        /\ call[p].result.stdout # <<>>
        /\ ~call[p].teardownFailed
        /\ ~call[p].staleFound

\* What the endpoint saw of stage k with the exit code left out.
SeenBesidesExit(k) ==
    [checked |-> seen[k].checked, stdout |-> seen[k].result.stdout,
     stderr |-> seen[k].result.stderr, exists |-> seen[k].exists]

\* The response as a function of what SeenBesidesExit tells of the stages.
ResponseBesidesExit(o) ==
    LET bad == {k \in Stages : o[k].checked /\ (o[k].stderr # <<>> \/ ~o[k].exists)}
    IN  IF bad # {}
        THEN ErrorObject(StageError(CHOOSE k \in bad : \A j \in bad : k <= j))
        ELSE IF JsonLoads(o[3].stdout).ok
        THEN Payload(JsonLoads(o[3].stdout).canon)
        ELSE ErrorObject(ParseError)

\* C18: the response to a request whose stages returned results is fixed by
\* each stage's stdout, stderr and the presence of its file: the exit codes
\* have no part in it, so two runs that differ in exit codes only get the
\* same status and body.
C18_ResponseIgnoresExitCode ==
    (ppc = "responded" /\ response.kind # "unhandled") =>
        /\ response = ResponseBesidesExit([k \in Stages |-> SeenBesidesExit(k)])
        /\ response.kind = "payload" => \A k \in Stages : seen[k].checked

\* C18 witness: a request got status 200 although a stage's code ended with
\* a non-zero exit code, its stderr empty and its file present.
C18_Witness ==
    /\ ppc = "responded"
    /\ response.status = 200
    /\ \E k \in Stages :
          /\ seen[k].result.exit_code # 0
          /\ seen[k].result.stderr = <<>>
          /\ seen[k].exists

\* C19 (as claimed): with one request at a time, scraped_table.html and
\* films.csv are both absent when the runner is invoked for stage 1, so a
\* file found by the test of stage 1 or 2 was written during the request.
C19_StageFilesAbsentAtStage1 ==
    runCalls[1] >= 1 =>
        wsAtStage1 \cap {"scraped_table.html", "films.csv"} = {}

====
